---- MODULE Spec2Model ----
(***************************************************************************)
(* react-route: path matching, residual (nested) URLs and the shared       *)
(* Router that arbitrates between <Route /> components.                    *)
(*                                                                         *)
(* Strings are sequences of one-character strings, so that slice, exec and *)
(* the percent codecs work on characters as the JavaScript does.  JavaScript*)
(* positions are 0-based; sequence positions here are 1-based and the      *)
(* operators convert at their boundary.                                    *)
(***************************************************************************)
EXTENDS Integers, Sequences, FiniteSets, TLC

(***************************************************************************)
(* JavaScript string primitives                                            *)
(***************************************************************************)

\* String.prototype.slice(from) / slice(from, to) with 0-based arguments,
\* clamped to the string as JavaScript clamps them.
Min(a, b) == IF a < b THEN a ELSE b

Max(a, b) == IF a > b THEN a ELSE b

slice(s, from, to) ==
  LET f == Min(Max(from, 0), Len(s))
      t == Min(Max(to, 0), Len(s))
  IN  IF t <= f THEN <<>> ELSE SubSeq(s, f + 1, t)

sliceFrom(s, from) == slice(s, from, Len(s))

\* Does `s` carry the text `t` at 1-based position `pos`?
HasAt(s, pos, t) ==
  /\ pos + Len(t) - 1 <= Len(s)
  /\ \A i \in 1..Len(t) : s[pos + i - 1] = t[i]

\* 1-based position of the first occurrence of character c in s, 0 if none.
RECURSIVE IndexOfChar(_, _, _)
IndexOfChar(s, c, i) ==
  IF i > Len(s) THEN 0
  ELSE IF s[i] = c THEN i
  ELSE IndexOfChar(s, c, i + 1)

\* 1-based position of the last occurrence of character c in s, 0 if none.
RECURSIVE LastIndexOfChar(_, _, _)
LastIndexOfChar(s, c, i) ==
  IF i < 1 THEN 0
  ELSE IF s[i] = c THEN i
  ELSE LastIndexOfChar(s, c, i - 1)

(***************************************************************************)
(* Percent codecs: decodeURIComponent, encodeURI, encodeURIComponent.      *)
(* The escape table covers the escapes that occur in the modelled strings: *)
(* %41 is "A", %2F is "/", %25 is "%", and the two-byte UTF-8 sequence      *)
(* %C3%A9 is "é".  Any other text after a "%" (a lone "%", a lone lead byte *)
(* %C3) is malformed and makes decodeURIComponent throw URIError.          *)
(***************************************************************************)
Undefined == <<"#undefined">>

URIError == <<"#URIError">>

esc_A == <<"%", "4", "1">>

esc_slash == <<"%", "2", "F">>

esc_percent == <<"%", "2", "5">>

esc_eacute == <<"%", "C", "3", "%", "A", "9">>

RECURSIVE decodeURIComponent(_)
decodeURIComponent(s) ==
  IF s = Undefined THEN <<"u", "n", "d", "e", "f", "i", "n", "e", "d">>
  ELSE IF s = <<>> THEN <<>>
  ELSE IF Head(s) # "%" THEN
    LET rest == decodeURIComponent(Tail(s))
    IN  IF rest = URIError THEN URIError ELSE <<Head(s)>> \o rest
  ELSE
    LET one(ch, n) ==
          LET rest == decodeURIComponent(sliceFrom(s, n))
          IN  IF rest = URIError THEN URIError ELSE <<ch>> \o rest
    IN  IF HasAt(s, 1, esc_eacute) THEN one("é", 6)
        ELSE IF HasAt(s, 1, esc_A) THEN one("A", 3)
        ELSE IF HasAt(s, 1, esc_slash) THEN one("/", 3)
        ELSE IF HasAt(s, 1, esc_percent) THEN one("%", 3)
        ELSE URIError

\* encodeURI leaves "/" and the unreserved characters, escapes "%" and
\* non-ASCII characters.
RECURSIVE encodeURI(_)
encodeURI(s) ==
  IF s = <<>> THEN <<>>
  ELSE (IF Head(s) = "é" THEN esc_eacute
        ELSE IF Head(s) = "%" THEN esc_percent
        ELSE <<Head(s)>>) \o encodeURI(Tail(s))

\* encodeURIComponent escapes "/" as well.
RECURSIVE encodeURIComponent(_)
encodeURIComponent(s) ==
  IF s = <<>> THEN <<>>
  ELSE (IF Head(s) = "é" THEN esc_eacute
        ELSE IF Head(s) = "%" THEN esc_percent
        ELSE IF Head(s) = "/" THEN esc_slash
        ELSE <<Head(s)>>) \o encodeURIComponent(Tail(s))

(***************************************************************************)
(* path-to-regexp: a compiled path is its token list with the start, end   *)
(* and strict options.  A token is literal text or a parameter             *)
(* (prefix "/" and pattern [^/#?]+?, optional when its modifier is "?").   *)
(* `encoded` is set by the matchers built with encode: encodeURI.          *)
(***************************************************************************)
Delimiters == {"/", "#", "?"}

Lit(text) == [type |-> "lit", text |-> text, prefix |-> <<>>, modifier |-> ""]

Param(prefix, modifier) ==
  [type |-> "param", text |-> <<>>, prefix |-> prefix, modifier |-> modifier]

pathToRegexp(tokens, start, end, strict, encoded) ==
  [tokens |-> tokens, start |-> start, end |-> end, strict |-> strict,
   encoded |-> encoded]

NoExec == [found |-> FALSE]

TokenText(re, text) == IF re.encoded THEN encodeURI(text) ELSE text

\* The tail of a regexp that is never anchored at the end of the subject.
MatchEnd_unanchored(re, s, pos, caps) ==
  IF pos = Len(s) + 1 \/ s[pos] \in Delimiters
  THEN [found |-> TRUE, end |-> pos, caps |-> caps]
  ELSE NoExec

\* The tail of the generated regexp after the tokens:
\*   end:    [/#?]? $            (the optional delimiter only when !strict)
\*   !end:   (?:[/#?](?=$))?  then (?=[/#?]|$) unless the path ends in a
\*           delimiter (or is empty).
MatchEnd(re, s, pos, caps) ==
  LET n == Len(s)
      atEnd == pos = n + 1
      delimThenEnd == pos = n /\ s[pos] \in Delimiters
      lastTok == re.tokens[Len(re.tokens)]
      isEndDelimited ==
        IF re.tokens = <<>> THEN TRUE
        ELSE /\ lastTok.type = "lit"
             /\ lastTok.text # <<>>
             /\ lastTok.text[Len(lastTok.text)] \in Delimiters
      ok(e) == [found |-> TRUE, end |-> e, caps |-> caps]
  IN  IF re.end THEN
        IF ~re.strict /\ delimThenEnd THEN ok(pos + 1)
        ELSE IF atEnd THEN ok(pos)
        ELSE NoExec
      ELSE
        IF ~re.strict /\ delimThenEnd THEN ok(pos + 1)
        ELSE IF isEndDelimited \/ atEnd \/ s[pos] \in Delimiters THEN ok(pos)
        ELSE NoExec

\* Backtracking match of tokens k.. of `re` at position pos, alternatives
\* tried in the regexp's priority order: a parameter is lazy (shortest
\* capture first), an optional group is greedy (present before absent).
RECURSIVE MatchFrom(_, _, _, _, _)
RECURSIVE TryParam(_, _, _, _, _, _)
MatchFrom(re, k, s, pos, caps) ==
  IF k > Len(re.tokens) THEN MatchEnd(re, s, pos, caps)
  ELSE
    LET t == re.tokens[k]
        text == TokenText(re, t.text)
        prefix == TokenText(re, t.prefix)
    IN  IF t.type = "lit" THEN
          IF HasAt(s, pos, text)
          THEN MatchFrom(re, k + 1, s, pos + Len(text), caps)
          ELSE NoExec
        ELSE
          LET orAbsent(present) ==
                IF present.found THEN present
                ELSE IF t.modifier = "?"
                THEN MatchFrom(re, k + 1, s, pos, Append(caps, Undefined))
                ELSE NoExec
          IN  orAbsent(IF HasAt(s, pos, prefix)
                       THEN TryParam(re, k, s, pos + Len(prefix), caps, 1)
                       ELSE NoExec)

TryParam(re, k, s, from, caps, n) ==
  IF from + n - 1 > Len(s) \/ s[from + n - 1] \in Delimiters THEN NoExec
  ELSE
    LET orLonger(r) ==
          IF r.found THEN r ELSE TryParam(re, k, s, from, caps, n + 1)
    IN  orLonger(MatchFrom(re, k + 1, s, from + n,
                           Append(caps, SubSeq(s, from, from + n - 1))))

\* RegExp.prototype.exec: the leftmost match; only position 0 is tried when
\* the regexp is anchored with ^ (start).  The result is m[0], m.index and
\* the capture groups m[1..].
RECURSIVE ExecAt(_, _, _)
ExecAt(re, s, pos) ==
  IF pos > Len(s) + 1 THEN NoExec
  ELSE
    LET orNext(r) ==
          IF r.found
          THEN [found |-> TRUE, value |-> SubSeq(s, pos, r.end - 1),
                index |-> pos - 1, groups |-> r.caps]
          ELSE IF re.start THEN NoExec
          ELSE ExecAt(re, s, pos + 1)
    IN  orNext(MatchFrom(re, 1, s, pos, <<>>))

exec(re, s) == ExecAt(re, s, 1)

(***************************************************************************)
(* URLs.  A URL is its host, pathname, search and hash (the scheme is      *)
(* always http).  newURL models `new URL(relative, base.href)` of the      *)
(* WHATWG URL parser for relative references made of a path, a search and  *)
(* a hash: a reference starting with "//" is scheme-relative and carries   *)
(* its own host; one starting with "/" replaces the path; any other is     *)
(* resolved against the directory of the base path.                        *)
(***************************************************************************)
URL(host, pathname, search, hash) ==
  [host |-> host, pathname |-> pathname, search |-> search, hash |-> hash]

newURL(relative, base) ==
  LET h == IndexOfChar(relative, "#", 1)
      hash == IF h = 0 THEN <<>> ELSE SubSeq(relative, h, Len(relative))
      noHash == IF h = 0 THEN relative ELSE SubSeq(relative, 1, h - 1)
      q == IndexOfChar(noHash, "?", 1)
      search == IF q = 0 THEN <<>> ELSE SubSeq(noHash, q, Len(noHash))
      path == IF q = 0 THEN noHash ELSE SubSeq(noHash, 1, q - 1)
  IN  IF HasAt(path, 1, <<"/", "/">>) THEN
        LET rest == sliceFrom(path, 2)
            e == IndexOfChar(rest, "/", 1)
            authority == IF e = 0 THEN rest ELSE SubSeq(rest, 1, e - 1)
            after == IF e = 0 THEN <<>> ELSE SubSeq(rest, e, Len(rest))
        IN  URL(authority, IF after = <<>> THEN <<"/">> ELSE after,
                search, hash)
      ELSE IF HasAt(path, 1, <<"/">>) THEN URL(base.host, path, search, hash)
      ELSE IF path = <<>> THEN
        URL(base.host, base.pathname,
            IF q = 0 THEN base.search ELSE search, hash)
      ELSE
        LET dir == SubSeq(base.pathname, 1,
                          LastIndexOfChar(base.pathname, "/",
                                          Len(base.pathname)))
        IN  URL(base.host, dir \o path, search, hash)

(***************************************************************************)
(* Match results.  `false` is [kind |-> "false"]; a thrown URIError is     *)
(* [kind |-> "throw"]; a match carries m[0], m.index and the params.       *)
(***************************************************************************)
False == [kind |-> "false"]

Null == [kind |-> "null"]

Throw == [kind |-> "throw"]

Match(value, index, params) ==
  [kind |-> "match", value |-> value, index |-> index, params |-> params]

\* toParams: decode every capture group in order; bail out with undefined
\* on the first one that decodeURIComponent rejects.
RECURSIVE toParamsFrom(_, _, _)
toParamsFrom(groups, i, params) ==
  IF i > Len(groups) THEN params
  ELSE
    LET d == decodeURIComponent(groups[i])
    IN  IF d = URIError THEN Undefined
        ELSE toParamsFrom(groups, i + 1, Append(params, d))

\* toParams that keeps the raw text of a group it cannot decode.
RECURSIVE toParamsRawFrom(_, _, _)
toParamsRawFrom(groups, i, params) ==
  IF i > Len(groups) THEN params
  ELSE
    LET d == decodeURIComponent(groups[i])
    IN  toParamsRawFrom(groups, i + 1,
                        Append(params, IF d = URIError THEN groups[i] ELSE d))

toParams_keepRaw(groups) == toParamsRawFrom(groups, 1, <<>>)

toParams(groups) == toParamsFrom(groups, 1, <<>>)

\* An earlier <Route />: params = Array(match.length - 1), where match is
\* the matched text m[0], filled with decodeURIComponent(m[i]) for
\* 1 <= i < match.length; m[i] is undefined past the last group.
RECURSIVE RouteParamsFrom(_, _, _)
RouteParamsFrom(m, i, params) ==
  IF i >= Len(m.value) THEN params
  ELSE
    LET decoded(d) ==
          IF d = URIError THEN False
          ELSE RouteParamsFrom(m, i + 1, Append(params, d))
    IN  decoded(decodeURIComponent(IF i <= Len(m.groups) THEN m.groups[i]
                                   ELSE Undefined))

\* Router.match(re) against this.location.url.pathname.
RouterMatch(re, pathname) ==
  LET result(m, params) ==
        IF ~m.found THEN False
        ELSE IF params = Undefined THEN False
        ELSE Match(m.value, m.index, params)
      decoded(m) == result(m, IF m.found THEN toParams(m.groups) ELSE <<>>)
  IN  decoded(exec(re, pathname))

\* The function returned by pathToRegexp.match(path, {decode}): groups that
\* did not take part stay undefined, the others go through decode, whose
\* exception is not caught.
RECURSIVE decodeGroups(_, _, _)
decodeGroups(groups, i, params) ==
  IF i > Len(groups) THEN params
  ELSE IF groups[i] = Undefined
  THEN decodeGroups(groups, i + 1, Append(params, Undefined))
  ELSE
    LET d == decodeURIComponent(groups[i])
    IN  IF d = URIError THEN URIError
        ELSE decodeGroups(groups, i + 1, Append(params, d))

pathMatch(re, pathname) ==
  LET result(m, params) ==
        IF ~m.found THEN False
        ELSE IF params = URIError THEN Throw
        ELSE Match(m.value, m.index, params)
      decoded(m) ==
        result(m, IF m.found THEN decodeGroups(m.groups, 1, <<>>) ELSE <<>>)
  IN  decoded(exec(re, pathname))

\* The function returned by pathToRegexp.compile(path, {encode}), applied
\* to the parameter values `data` (one per parameter token, in order;
\* Undefined when the key is absent).  Literal tokens are appended as they
\* are; a value is encoded, must then match the parameter's pattern
\* [^/#?]+? in full, and is appended after the prefix.  A missing value is
\* skipped for an optional parameter and a TypeError otherwise.
TypeError == <<"#TypeError">>

RECURSIVE compileFrom(_, _, _, _, _, _)
compileFrom(tokens, k, data, j, path, encode) ==
  IF k > Len(tokens) THEN path
  ELSE
    LET token == tokens[k]
    IN  IF token.type = "lit"
        THEN compileFrom(tokens, k + 1, data, j, path \o token.text, encode)
        ELSE
          LET value == data[j]
              segment == IF encode THEN encodeURIComponent(value) ELSE value
              valid == /\ segment # <<>>
                       /\ \A i \in 1..Len(segment) : segment[i] \notin Delimiters
          IN  IF value # Undefined THEN
                IF valid
                THEN compileFrom(tokens, k + 1, data, j + 1,
                                 path \o token.prefix \o segment, encode)
                ELSE TypeError
              ELSE IF token.modifier = "?"
              THEN compileFrom(tokens, k + 1, data, j + 1, path, encode)
              ELSE TypeError

\* compile without the encode option: values are substituted as they are.
compile_raw(tokens, data) == compileFrom(tokens, 1, data, 1, <<>>, FALSE)

\* useCompile(path)(params): pathToRegexp.compile(path, { encode:
\* encodeURIComponent })(params).
compile(tokens, data) == compileFrom(tokens, 1, data, 1, <<>>, TRUE)

\* nestedPathname that forgets the text before the match.
nestedPathname_dropPrefix(pathname, index, path) ==
  IF Len(path) = 0 THEN pathname
  ELSE
    LET rest == sliceFrom(pathname, index + Len(path))
    IN  IF rest = <<>> THEN <<"/">> ELSE rest

\* nestedPathname without the `|| "/"`.
nestedPathname_noRoot(pathname, index, path) ==
  IF Len(path) = 0 THEN pathname
  ELSE slice(pathname, 0, index) \o sliceFrom(pathname, index + Len(path))

\* nestedPathname whose early return gives the root instead of the pathname.
nestedPathname_rootOnEmpty(pathname, index, path) ==
  IF Len(path) = 0 THEN <<"/">>
  ELSE
    LET rest == slice(pathname, 0, index)
                  \o sliceFrom(pathname, index + Len(path))
    IN  IF rest = <<>> THEN <<"/">> ELSE rest

\* nestedPathname(pathname, index, path)
nestedPathname(pathname, index, path) ==
  IF Len(path) = 0 THEN pathname
  ELSE
    LET rest == slice(pathname, 0, index)
                  \o sliceFrom(pathname, index + Len(path))
    IN  IF rest = <<>> THEN <<"/">> ELSE rest

\* nestedUrl(url, index, value) of the Router variants.
nestedUrl(url, index, value) ==
  IF Len(value) = 0 THEN url
  ELSE
    LET newPathname == slice(url.pathname, 0, index)
                         \o sliceFrom(url.pathname, index + Len(value))
        newPath == (IF newPathname = <<>> THEN <<"/">> ELSE newPathname)
                     \o url.search \o url.hash
    IN  newURL(newPath, url)

\* The URL a matched <Route /> hands to its children (Route, the Router
\* version): always rebuilt with new URL(newPath, url.href).
RouteNewUrl(url, match) ==
  LET newPathname == slice(url.pathname, 0, match.index)
                       \o sliceFrom(url.pathname,
                                    match.index + Len(match.value))
      newPath == (IF newPathname = <<>> THEN <<"/">> ELSE newPathname)
                   \o url.search \o url.hash
  IN  newURL(newPath, url)

(***************************************************************************)
(* The path-to-regexp `match` call sites and the first Router-less Route   *)
(***************************************************************************)

\* toMatchOptions: start, end, sensitive and strict are passed through and
\* encode: encodeURI, decode: decodeURIComponent are added.
toMatchOptions(path) ==
  pathToRegexp(path.tokens, path.start, path.end, path.strict, TRUE)

\* pathToRegexp(path, undefined, options) of the Router versions: no encode.
usePath(path) ==
  pathToRegexp(path.tokens, path.start, path.end, path.strict, FALSE)

\* route(path, callback, options): the nested URL is resolved against the
\* origin and is not normalised before new URL().
route(path, u) ==
  LET m == exec(usePath(path), u.pathname)
  IN  IF ~m.found THEN Null
      ELSE
        LET nested == slice(u.pathname, 0, m.index)
                        \o sliceFrom(u.pathname, m.index + Len(m.value))
        IN  [kind |-> "children", params |-> m.groups,
             url |-> newURL(nested \o u.search \o u.hash,
                            URL(u.host, <<"/">>, <<>>, <<>>))]

\* The loop of <Switch />: the first child whose match(pathname) is not
\* false is shown; an exception thrown by a match leaves the loop.
RECURSIVE SwitchLoop(_, _, _)
SwitchLoop(childRoutes, k, pathname) ==
  IF k > Len(childRoutes) THEN [kind |-> "fallback", child |-> 0]
  ELSE
    LET show(result) ==
          IF result.kind = "throw" THEN [kind |-> "throw", child |-> k]
          ELSE IF result.kind = "match"
          THEN [kind |-> "route", child |-> k, result |-> result,
                route |-> [pathname |-> nestedPathname(pathname, result.index,
                                                       result.value),
                           params |-> result.params]]
          ELSE SwitchLoop(childRoutes, k + 1, pathname)
    IN  show(pathMatch(toMatchOptions(childRoutes[k]), pathname))

Switch(childRoutes, pathname) == SwitchLoop(childRoutes, 1, pathname)

(***************************************************************************)
(* Model inputs                                                            *)
(***************************************************************************)
host == <<"e", "x">>

s_me == <<"/", "m", "e">>

s_foo == <<"/", "f", "o", "o">>

s_bar == <<"/", "b", "a", "r">>

s_bad == <<"/", "%">>

s_cafe == <<"/", "c", "é">>

s_query == <<"?", "q">>

s_hash == <<"#", "h">>

Path(tokens, start, end, strict) ==
  [tokens |-> tokens, start |-> start, end |-> end, strict |-> strict]

path_me == Path(<<Lit(s_me)>>, TRUE, TRUE, FALSE)

path_id == Path(<<Param(<<"/">>, "")>>, TRUE, TRUE, FALSE)

path_fooPrefix == Path(<<Lit(s_foo)>>, TRUE, FALSE, FALSE)

path_barSuffix == Path(<<Lit(s_bar)>>, FALSE, TRUE, FALSE)

path_any == Path(<<>>, TRUE, FALSE, FALSE)

path_root == Path(<<Lit(<<"/">>)>>, TRUE, TRUE, FALSE)

path_two == Path(<<Param(<<"/">>, ""), Param(<<"/">>, "")>>, TRUE, TRUE, FALSE)

path_fooOptional == Path(<<Lit(s_foo), Param(<<"/">>, "?")>>, TRUE, TRUE, FALSE)

path_cafePrefix == Path(<<Lit(s_cafe)>>, TRUE, FALSE, FALSE)

path_fooInfix == Path(<<Lit(Tail(s_foo))>>, FALSE, FALSE, FALSE)

\* The paths given to <Route path options /> of the Router version:
\* "/me", "/:id" and "/foo" with end: false.
RoutePaths == <<usePath(path_me), usePath(path_id), usePath(path_fooPrefix)>>

\* The URLs the location is pushed to.
Urls ==
  { URL(host, s_me, <<>>, <<>>),
    URL(host, s_me, s_query, s_hash),
    URL(host, s_foo \o <<"/">> \o s_bar, s_query, <<>>),
    URL(host, s_bad, <<>>, <<>>) }

\* Number of <Route /> components in the tree; a component's number is its
\* position in the tree (render order).
NRoutes == 3

RouteIds == 1..NRoutes

\* The compiled path (useMemo) of component c.
RoutePath(c) == RoutePaths[((c - 1) % Len(RoutePaths)) + 1]

\* Paths and URLs the matching functions are applied to.
MatchPaths ==
  { path_me, path_id, path_fooPrefix, path_barSuffix, path_any, path_root,
    path_two, path_fooOptional, path_cafePrefix, path_fooInfix }

MatchUrls ==
  { URL(host, s_me, <<>>, <<>>),
    URL(host, s_foo, s_query, <<>>),
    URL(host, s_foo \o <<"/">>, <<>>, <<>>),
    URL(host, s_foo \o s_bar, s_query, s_hash),
    URL(host, s_foo \o <<"/">> \o s_bar, <<>>, s_hash),
    URL(host, <<"/">>, s_query, s_hash),
    URL(host, s_bad, <<>>, <<>>),
    URL(host, s_me \o s_bad, s_query, <<>>),
    URL(host, <<"/">> \o esc_A \o s_me, <<>>, <<>>),
    URL(host, encodeURI(s_cafe) \o s_me, <<>>, s_hash),
    URL(host, <<"/", "%", "C", "3">>, <<>>, <<>>) }

\* The <Route /> children a <Switch /> is given, and those of the
\* <Switch /> that every route's component renders in turn.
SwitchPaths == {path_me, path_id, path_fooPrefix, path_any}

MaxChildren == 2

RECURSIVE SeqsUpTo(_, _)
SeqsUpTo(S, n) ==
  IF n = 0 THEN {<<>>}
  ELSE LET shorter == SeqsUpTo(S, n - 1)
       IN  shorter \cup {Append(q, x) : q \in shorter, x \in S}

NestedChildren == {<<path_root, path_id>>, <<path_id, path_any>>}

SwitchUrls ==
  { URL(host, s_me, <<>>, <<>>),
    URL(host, s_foo, s_query, <<>>),
    URL(host, s_foo \o s_me, <<>>, s_hash),
    URL(host, s_foo \o s_bad, <<>>, <<>>),
    URL(host, s_bad, <<>>, <<>>) }

\* The parameter values given to a compiled path: "me", "cé", "m/e" and
\* "%", or no value.
CompileValues ==
  { Tail(s_me), Tail(s_cafe), <<"m", "/", "e">>, <<"%">>, Undefined }

ParamTokens(tokens) == {k \in 1..Len(tokens) : tokens[k].type = "param"}

\* The params objects for a path: one value per parameter of the path.
CompileData(tokens) ==
  {data \in SeqsUpTo(CompileValues, Len(tokens)) :
     Len(data) = Cardinality(ParamTokens(tokens))}

(***************************************************************************)
(* The Router version: state                                               *)
(*   url        location.url                                               *)
(*   routes     Router.routes, the tracked entries in registration order,  *)
(*              each named by its component                                *)
(*   matched    Router.matched.  A component makes a new [re, updateMatch] *)
(*              array on every render; the one in `routes` is the array of *)
(*              the render whose layout effect ran.  kind says which array *)
(*              of component `id` Router.matched is: "tracked" (the one in *)
(*              routes), "later" (of a later render) or "stale" (of a      *)
(*              component that has been unmounted since).                  *)
(*   listeners  number of live location.onChange subscriptions of the      *)
(*              Router                                                     *)
(*   comp       per component: mounted, its useState match and what it     *)
(*              last rendered (the URL given to its children, or null)     *)
(*   last       the last operation: what it was, on which component,       *)
(*              whether that component was the winner, and the values its  *)
(*              Router.update (if it ran one) gave to updateMatch, in call *)
(*              order                                                      *)
(*                                                                         *)
(* The matching functions on their own:                                    *)
(*   input      the path with its options and the URL of a call            *)
(*   output     the function called and what it returned                   *)
(*                                                                         *)
(* The <Switch /> version (url is location.url here too):                  *)
(*   pathname   the useState of usePathname in the outer <Switch />        *)
(*   children   the <Route /> props of the outer and of the nested Switch  *)
(*   shown      what the outer <Switch /> rendered, and what the nested    *)
(*              <Switch /> in the shown route's component rendered         *)
(***************************************************************************)
VARIABLES url, routes, matched, listeners, comp, last,
          input, output, pathname, children, shown,
          nest, locs, calls, arb, rloc

routerVars == <<routes, matched, listeners, comp, last>>

matchVars == <<input, output>>

switchVars == <<pathname, children, shown>>

treeVars == <<nest, locs, calls, arb, rloc>>

vars == <<url, routes, matched, listeners, comp, last,
          input, output, pathname, children, shown,
          nest, locs, calls, arb, rloc>>

NoRoute == [kind |-> "none", id |-> 0]

Unmounted == [mounted |-> FALSE, match |-> False, view |-> Null]

\* Route(): what the component returns for its match state.
RouteRender(u, match) ==
  IF match.kind # "match" THEN Null
  ELSE [kind |-> "children", params |-> match.params,
        url |-> RouteNewUrl(u, match)]

\* Router.use on a re-render of a mounted component c: useState keeps the
\* state, `if (match) this.matched = route` stores the array of this render.
Rerendered(st, u, c) ==
  [st EXCEPT !.matched = IF st.comp[c].match.kind = "match"
                         THEN [kind |-> "later", id |-> c]
                         ELSE st.matched,
             !.comp[c].view = RouteRender(u, st.comp[c].match)]

\* React renders the components whose state was set while it could not
\* render (inside an event-handler batch or a commit), in tree order.
RECURSIVE FlushRenders(_, _, _, _)
FlushRenders(st, u, dirty, c) ==
  IF c > NRoutes THEN st
  ELSE FlushRenders(IF c \in dirty THEN Rerendered(st, u, c) ELSE st,
                    u, dirty, c + 1)

\* Router.update.  updateMatch(match) is the useState setter: React skips
\* the render when the state stays false, renders the component at once when
\* it is called outside a batch (sync), and defers the render otherwise.
RECURSIVE UpdateLoop(_, _, _, _, _, _)
UpdateLoop(st, u, rs, k, sync, dirty) ==
  IF k > Len(rs) THEN FlushRenders(st, u, dirty, 1)
  ELSE
    LET c == rs[k]
        updateMatch(match) ==
          LET changed == ~(match = False /\ st.comp[c].match = False)
              set == [st EXCEPT !.comp[c].match = match,
                                !.pass = Append(st.pass, <<c, match>>)]
          IN  UpdateLoop(IF changed /\ sync THEN Rerendered(set, u, c)
                         ELSE set,
                         u, rs, k + 1, sync,
                         IF changed /\ ~sync THEN dirty \cup {c} ELSE dirty)
    IN  updateMatch(IF st.matched.kind # "none" THEN False
                    ELSE RouterMatch(RoutePath(c), u.pathname))

update(u, rs, cs, sync) ==
  UpdateLoop([matched |-> NoRoute, comp |-> cs, pass |-> <<>>],
             u, rs, 1, sync, {})

\* Array.prototype.indexOf / splice(i, 1) on the routes array (0-based).
RECURSIVE indexOf(_, _, _)
indexOf(rs, c, i) ==
  IF i > Len(rs) THEN -1
  ELSE IF rs[i] = c THEN i - 1
  ELSE indexOf(rs, c, i + 1)

splice1(rs, i) ==
  LET at == IF i < 0 THEN Max(Len(rs) + i, 0) ELSE Min(i, Len(rs))
  IN  SubSeq(rs, 1, at) \o SubSeq(rs, at + 2, Len(rs))

Op(op, c, winner, pass) ==
  [op |-> op, id |-> c, winner |-> winner, pass |-> pass]

NoInput == [path |-> path_any, url |-> URL(<<>>, <<>>, <<>>, <<>>)]

NoOutput == [fn |-> "none"]

NotRendered == [kind |-> "none", child |-> 0]

RouterIdle ==
  /\ routes = <<>>
  /\ matched = NoRoute
  /\ listeners = 0
  /\ comp = [c \in RouteIds |-> Unmounted]
  /\ last = Op("init", 0, FALSE, <<>>)

MatchIdle ==
  /\ input = NoInput
  /\ output = NoOutput

SwitchIdle ==
  /\ pathname = <<>>
  /\ children = [outer |-> <<>>, nested |-> <<>>]
  /\ shown = [outer |-> NotRendered, nested |-> NotRendered]

NoNest == [top |-> "none"]

NoLocs == <<>>

NoCalls == [lastIndex |-> 0, log |-> <<>>]

TreeIdle ==
  /\ nest = NoNest
  /\ locs = NoLocs
  /\ calls = NoCalls
  /\ arb = <<>>
  /\ rloc = <<>>

Init ==
  /\ url \in Urls
  /\ RouterIdle
  /\ MatchIdle
  /\ SwitchIdle
  /\ TreeIdle

\* A mount whose Router.use runs the match whether or not a route is
\* matched already.
Mount_unguarded(c) ==
  /\ ~comp[c].mounted
  /\ LET initialValue == RouterMatch(RoutePath(c), url.pathname)
     IN  /\ comp' = [comp EXCEPT ![c] =
                       [mounted |-> TRUE, match |-> initialValue,
                        view |-> RouteRender(url, initialValue)]]
         /\ matched' = IF initialValue.kind = "match"
                       THEN [kind |-> "tracked", id |-> c]
                       ELSE matched
  /\ routes' = Append(routes, c)
  /\ listeners' = IF Len(routes') = 1 THEN listeners + 1 ELSE listeners
  /\ last' = Op("mount", c, FALSE, <<>>)
  /\ UNCHANGED <<url, matchVars, switchVars, treeVars>>

\* A <Route /> is mounted: Router.use in its first render, then the layout
\* effect runs Router.track.
Mount(c) ==
  /\ ~comp[c].mounted
  /\ LET initialValue == IF matched.kind # "none" THEN False
                         ELSE RouterMatch(RoutePath(c), url.pathname)
     IN  /\ comp' = [comp EXCEPT ![c] =
                       [mounted |-> TRUE, match |-> initialValue,
                        view |-> RouteRender(url, initialValue)]]
         /\ matched' = IF initialValue.kind = "match"
                       THEN [kind |-> "tracked", id |-> c]
                       ELSE matched
  /\ routes' = Append(routes, c)
  /\ listeners' = IF Len(routes') = 1 THEN listeners + 1 ELSE listeners
  /\ last' = Op("mount", c, FALSE, <<>>)
  /\ UNCHANGED <<url, matchVars, switchVars, treeVars>>

\* A mounted <Route /> renders again with the same props (its parent
\* rendered): the layout effect does not run again, its deps [re] are equal.
Rerender(c) ==
  /\ comp[c].mounted
  /\ LET st == Rerendered([matched |-> matched, comp |-> comp, pass |-> <<>>],
                          url, c)
     IN  /\ matched' = st.matched
         /\ comp' = st.comp
  /\ last' = Op("render", c, FALSE, <<>>)
  /\ UNCHANGED <<url, routes, listeners, matchVars, switchVars, treeVars>>

\* An unmount whose Router.track closure never calls this.unsubscribe.
Unmount_keepsSubscription(c) ==
  /\ comp[c].mounted
  /\ LET rs == splice1(routes, indexOf(routes, c, 1))
         cs == [comp EXCEPT ![c] = Unmounted]
         isMatched == matched = [kind |-> "tracked", id |-> c]
         st == IF isMatched THEN update(url, rs, cs, FALSE)
               ELSE [matched |-> IF matched.id = c
                                 THEN [kind |-> "stale", id |-> c]
                                 ELSE matched,
                     comp |-> cs, pass |-> <<>>]
     IN  /\ routes' = rs
         /\ matched' = st.matched
         /\ comp' = st.comp
         /\ listeners' = listeners
         /\ last' = Op(IF isMatched THEN "unmount+update" ELSE "unmount", c,
                       matched.id = c /\ matched.kind # "stale", st.pass)
  /\ UNCHANGED <<url, matchVars, switchVars, treeVars>>

\* A <Route /> is unmounted: the function returned by Router.track runs in
\* React's commit, where a state set by updateMatch is rendered afterwards.
Unmount(c) ==
  /\ comp[c].mounted
  /\ LET rs == splice1(routes, indexOf(routes, c, 1))
         cs == [comp EXCEPT ![c] = Unmounted]
         isMatched == matched = [kind |-> "tracked", id |-> c]
         st == IF isMatched THEN update(url, rs, cs, FALSE)
               ELSE [matched |-> IF matched.id = c
                                 THEN [kind |-> "stale", id |-> c]
                                 ELSE matched,
                     comp |-> cs, pass |-> <<>>]
     IN  /\ routes' = rs
         /\ matched' = st.matched
         /\ comp' = st.comp
         /\ listeners' = IF Len(rs) = 0 /\ listeners > 0 THEN listeners - 1
                         ELSE listeners
         /\ last' = Op(IF isMatched THEN "unmount+update" ELSE "unmount", c,
                       matched.id = c /\ matched.kind # "stale", st.pass)
  /\ UNCHANGED <<url, matchVars, switchVars, treeVars>>

\* location.push: the URL changes and the onChange listeners run; the
\* Router's listener is () => this.update().  `sync` is whether React can
\* render inside updateMatch (push called outside React) or batches the
\* state updates (push called from an event handler such as <Link />).
Push(u, sync) ==
  /\ url' = u
  /\ IF listeners > 0
     THEN LET st == update(u, routes, comp, sync)
          IN  /\ matched' = st.matched
              /\ comp' = st.comp
              /\ last' = Op("push+update", 0, FALSE, st.pass)
     ELSE /\ UNCHANGED <<matched, comp>>
          /\ last' = Op("push", 0, FALSE, <<>>)
  /\ UNCHANGED <<routes, listeners, matchVars, switchVars, treeVars>>

Next ==
  \/ \E c \in RouteIds : Mount(c)
  \/ \E c \in RouteIds : Rerender(c)
  \/ \E c \in RouteIds : Unmount(c)
  \/ \E u \in Urls, sync \in BOOLEAN : Push(u, sync)

Spec == Init /\ [][Next]_vars

(***************************************************************************)
(* The matching functions, each applied to an input drawn in MatchInit.    *)
(***************************************************************************)
MatchInit ==
  /\ input \in [path : MatchPaths, url : MatchUrls]
  /\ url = input.url
  /\ output = NoOutput
  /\ RouterIdle
  /\ SwitchIdle
  /\ TreeIdle

Return(out) ==
  /\ output = NoOutput
  /\ output' = out
  /\ UNCHANGED <<url, input, routerVars, switchVars, treeVars>>

\* Router.match(re) on a location whose URL is input.url.
CallRouterMatch ==
  LET re == usePath(input.path)
  IN  Return([fn |-> "Router.match", m |-> exec(re, url.pathname),
              result |-> RouterMatch(re, url.pathname)])

\* The function made by useMatch(path, options), applied to the pathname.
CallMatch ==
  LET re == toMatchOptions(input.path)
  IN  Return([fn |-> "match", m |-> exec(re, url.pathname),
              result |-> pathMatch(re, url.pathname)])

\* ShowRoute: nestedPathname(pathname, index, path) of a match result.
CallNestedPathname ==
  LET result == pathMatch(toMatchOptions(input.path), url.pathname)
  IN  /\ result.kind = "match"
      /\ Return([fn |-> "nestedPathname", result |-> result,
                 nested |-> nestedPathname(url.pathname, result.index,
                                           result.value)])

\* nestedUrl(location.url, index, value) of a match result.
CallNestedUrl ==
  LET result == RouterMatch(usePath(input.path), url.pathname)
  IN  /\ result.kind = "match"
      /\ Return([fn |-> "nestedUrl", result |-> result,
                 nested |-> nestedUrl(url, result.index, result.value)])

\* route(path, callback) rendered on the URL.
CallRoute ==
  LET view == route(input.path, url)
  IN  /\ view.kind = "children"
      /\ Return([fn |-> "route", m |-> exec(usePath(input.path), url.pathname),
                 nested |-> view.url])

\* useCompile(path)(data) for the path of the input.
CallCompile ==
  \E data \in CompileData(input.path.tokens) :
    Return([fn |-> "compile", data |-> data,
            built |-> compile(input.path.tokens, data)])

\* The params that match(pathname) extracts, given to the function of
\* useCompile for the same path, and the built path matched again.
CallRoundTrip ==
  LET re == toMatchOptions(input.path)
      first == pathMatch(re, url.pathname)
      built == compile(input.path.tokens, first.params)
  IN  /\ first.kind = "match"
      /\ Return([fn |-> "roundTrip", first |-> first, built |-> built,
                 again |-> IF built = TypeError THEN Throw
                           ELSE pathMatch(re, built)])

\* The params an earlier <Route /> hands to its children for input.url.
CallRouteParams ==
  LET re == usePath(input.path)
      params(m) ==
        [fn |-> "Route.params", m |-> m,
         result |-> IF m.found THEN RouteParamsFrom(m, 1, <<>>) ELSE False]
  IN  Return(params(exec(re, url.pathname)))

MatchNext ==
  \/ CallRouterMatch
  \/ CallMatch
  \/ CallNestedPathname
  \/ CallNestedUrl
  \/ CallRoute
  \/ CallCompile
  \/ CallRoundTrip
  \/ CallRouteParams

SpecMatch == MatchInit /\ [][MatchNext]_vars

(***************************************************************************)
(* The <Switch /> version: an outer <Switch /> under the location and, in  *)
(* the component of each of its routes, a nested <Switch />.  usePathname  *)
(* gives the outer one the location's pathname (kept in a useState that    *)
(* the onChange listener sets) and the nested one the pathname of the      *)
(* RouteContext that ShowRoute provides.  A render that throws unmounts    *)
(* the tree.                                                               *)
(***************************************************************************)
Rendering(cs, p) ==
  LET component(outer) ==
        [outer |-> outer,
         nested |-> IF outer.kind = "route"
                    THEN Switch(cs.nested, outer.route.pathname)
                    ELSE NotRendered]
  IN  component(Switch(cs.outer, p))

Crashed == shown.outer.kind = "throw" \/ shown.nested.kind = "throw"

SwitchInit ==
  /\ url \in SwitchUrls
  /\ children \in [outer : SeqsUpTo(SwitchPaths, MaxChildren),
                   nested : NestedChildren]
  /\ pathname = <<>>
  /\ shown = [outer |-> NotRendered, nested |-> NotRendered]
  /\ RouterIdle
  /\ MatchIdle
  /\ TreeIdle

\* The tree is rendered for the first time.
SwitchMount ==
  /\ shown.outer.kind = "none"
  /\ pathname' = url.pathname
  /\ shown' = Rendering(children, url.pathname)
  /\ UNCHANGED <<url, children, routerVars, matchVars, treeVars>>

\* location.push: the onChange listener of usePathname sets the pathname
\* state; the Switch renders again when it changed.
SwitchPush(u) ==
  /\ shown.outer.kind # "none"
  /\ url' = u
  /\ IF Crashed THEN UNCHANGED <<pathname, shown>>
     ELSE /\ pathname' = u.pathname
          /\ shown' = IF u.pathname = pathname THEN shown
                      ELSE Rendering(children, u.pathname)
  /\ UNCHANGED <<children, routerVars, matchVars, treeVars>>

SwitchNext ==
  \/ SwitchMount
  \/ \E u \in SwitchUrls : SwitchPush(u)

SpecSwitch == SwitchInit /\ [][SwitchNext]_vars

(***************************************************************************)
(* The final version: a chain of nested <Route /> components.  The         *)
(* component of the route at depth d renders the route at depth d + 1; the *)
(* outermost one is a <Route /> or, in a <Switch />, a <Route /> followed  *)
(* by the catch-all <Route end={false} />.                                 *)
(*   nest.top    "Route" or "Switch": what the outermost element is        *)
(*   nest.paths  the path props, by depth                                  *)
(*   nest.state  the useState of usePathname (every mounted component has  *)
(*               one; the onChange listeners give them all the same value) *)
(*   nest.out    what the element at each depth rendered                   *)
(*   nest.fresh  whether the last operation rendered the element at each   *)
(*               depth                                                     *)
(*   nest.prev   the URL before the last operation                         *)
(* The state updates of one push are rendered together (React batches      *)
(* them).  A render that throws unmounts the tree.                         *)
(***************************************************************************)
NoRouteContext == [defined |-> FALSE]

RouteContext(r) ==
  [defined |-> TRUE, pathname |-> r.pathname, params |-> r.params]

\* usePathname that ignores the RouteContext.
usePathname_global(ctx, state) == state

\* usePathname(): route ? route.pathname : pathname
usePathname(ctx, state) == IF ctx.defined THEN ctx.pathname ELSE state

\* A state setter that always renders.
setPathname_always(state, value) == TRUE

\* setPathname(value): React renders the component again unless the value
\* is the state it already has.
setPathname(state, value) == value # state

\* <Route path ... component />: match(pathname), then ShowRoute or null.
Route(path, p) ==
  LET show(result) ==
        IF result.kind = "throw" THEN [kind |-> "throw", child |-> 1]
        ELSE IF result.kind = "match"
        THEN [kind |-> "route", child |-> 1, result |-> result,
              route |-> [pathname |-> nestedPathname(p, result.index,
                                                     result.value),
                         params |-> result.params]]
        ELSE [kind |-> "null", child |-> 0]
  IN  show(pathMatch(toMatchOptions(path), p))

NDepth == 3

Depths == 1..NDepth

NestTopPaths == {path_fooPrefix, path_any}

NestPaths == {path_fooPrefix, path_me, path_id}

NestUrls ==
  { URL(host, s_foo, <<>>, <<>>),
    URL(host, s_foo \o <<"/">>, <<>>, <<>>),
    URL(host, s_foo \o s_me, <<>>, <<>>),
    URL(host, s_foo \o s_me, s_query, s_hash),
    URL(host, s_foo \o s_foo, <<>>, s_hash),
    URL(host, s_foo \o s_foo \o s_me, <<>>, <<>>),
    URL(host, s_me, s_query, <<>>),
    URL(host, s_foo \o s_bad, <<>>, <<>>) }

\* The elements at depths d.. rendered under the RouteContext ctx.
RECURSIVE RenderChain(_, _, _, _, _)
RenderChain(top, paths, d, ctx, state) ==
  IF d > Len(paths) THEN <<>>
  ELSE
    LET p == usePathname(ctx, state)
        under(out) ==
          IF out.kind = "route"
          THEN <<out>> \o RenderChain(top, paths, d + 1,
                                      RouteContext(out.route), state)
          ELSE <<out>> \o [i \in 1..(Len(paths) - d) |-> NotRendered]
    IN  under(IF d = 1 /\ top = "Switch"
              THEN Switch(<<paths[1], path_any>>, p)
              ELSE Route(paths[d], p))

NestCrashed == \E d \in Depths : nest.out[d].kind = "throw"

NestInit ==
  /\ url \in NestUrls
  /\ \E top \in {"Route", "Switch"}, p1 \in NestTopPaths,
        deeper \in [2..NDepth -> NestPaths] :
       nest = [top |-> top,
               paths |-> [d \in Depths |-> IF d = 1 THEN p1 ELSE deeper[d]],
               state |-> <<>>,
               out |-> [d \in Depths |-> NotRendered],
               fresh |-> [d \in Depths |-> FALSE],
               op |-> "init",
               prev |-> url]
  /\ locs = NoLocs
  /\ calls = NoCalls
  /\ arb = <<>>
  /\ rloc = <<>>
  /\ RouterIdle
  /\ MatchIdle
  /\ SwitchIdle

\* The tree is rendered for the first time.
NestMount ==
  /\ nest.op = "init"
  /\ LET out == RenderChain(nest.top, nest.paths, 1, NoRouteContext,
                            url.pathname)
     IN  nest' = [nest EXCEPT !.state = url.pathname,
                              !.out = out,
                              !.fresh = [d \in Depths |-> out[d].kind # "none"],
                              !.op = "mount",
                              !.prev = url]
  /\ UNCHANGED <<url, locs, calls, arb, rloc, routerVars,
               matchVars, switchVars>>

\* location.push(u): every usePathname listener calls
\* setPathname(location.url.pathname).
NestPush(u) ==
  /\ nest.op # "init"
  /\ url' = u
  /\ IF NestCrashed
     THEN nest' = [nest EXCEPT !.fresh = [d \in Depths |-> FALSE],
                               !.op = "push", !.prev = url]
     ELSE LET render == setPathname(nest.state, u.pathname)
              out == IF render
                     THEN RenderChain(nest.top, nest.paths, 1, NoRouteContext,
                                      u.pathname)
                     ELSE nest.out
          IN  nest' = [nest EXCEPT
                         !.state = u.pathname,
                         !.out = out,
                         !.fresh = [d \in Depths |->
                                      render /\ out[d].kind # "none"],
                         !.op = "push",
                         !.prev = url]
  /\ UNCHANGED <<locs, calls, arb, rloc, routerVars,
               matchVars, switchVars>>

NestNext ==
  \/ NestMount
  \/ \E u \in NestUrls : NestPush(u)

SpecNested == NestInit /\ [][NestNext]_vars

(***************************************************************************)
(* The Router version: a chain of nested <Route /> components and the      *)
(* RouteLocations they make.  The route at depth d renders, in the         *)
(* Context.Provider of its new RouteLocation, the route at depth d + 1.    *)
(*   locs.paths   the path props, by depth                                 *)
(*   locs.chain   the locations in context: chain[1] is the SimpleLocation *)
(*                of the application, chain[d + 1] the RouteLocation made  *)
(*                by the last render of the route at depth d; `parent` is  *)
(*                the position of its parent in the chain                  *)
(*   locs.match   the useState match of the route at each depth            *)
(*   locs.log     the push calls of the last push, in call order, as       *)
(*                <<depth of the location, argument>>                      *)
(*   locs.before  the locations that were in context before the last       *)
(*                operation, as that operation left them                   *)
(* The route at depth 1 is tracked by the Router of the SimpleLocation,    *)
(* whose onChange runs Router.update.  A route at a greater depth is       *)
(* tracked by the Router of the RouteLocation it was mounted in; that      *)
(* location never emits a change, and a later render of the parent gives   *)
(* the route a new RouteLocation with a new Router, where useState keeps   *)
(* the match it had.                                                       *)
(***************************************************************************)
path_idPrefix == Path(<<Param(<<"/">>, "")>>, TRUE, FALSE, FALSE)

LocPaths == {path_fooPrefix, path_idPrefix, path_me}

LocUrls ==
  { URL(host, s_foo \o s_me, <<>>, <<>>),
    URL(host, s_foo \o s_foo \o s_me, s_query, <<>>),
    URL(host, s_me \o s_foo \o s_me, <<>>, s_hash),
    URL(host, s_me, <<>>, <<>>) }

\* The arguments of push: "/foo/me", "/me/foo/foo", "me", "?q" and "#h".
PushArguments ==
  { s_foo \o s_me, s_me \o s_foo \o s_foo, Tail(s_me), s_query, s_hash }

SimpleLocation(u) == [url |-> u, parent |-> 0]

RouteLocation(u, parent) == [url |-> u, parent |-> parent]

NotMounted == [kind |-> "unmounted"]

\* RouteLocation.push that also applies the push to the location itself.
RECURSIVE push_applied(_, _, _, _)
push_applied(chain, d, location, log) ==
  IF chain[d].parent = 0
  THEN [chain |-> [chain EXCEPT ![d].url = newURL(location, chain[d].url)],
        log |-> Append(log, <<d, location>>)]
  ELSE push_applied([chain EXCEPT ![d].url = newURL(location, chain[d].url)],
                    chain[d].parent, location, Append(log, <<d, location>>))

\* location.push(location) on the location at depth d: a RouteLocation
\* returns this.parent.push(location); the SimpleLocation resolves the
\* argument against its URL and takes the result as its URL.
RECURSIVE push(_, _, _, _)
push(chain, d, location, log) ==
  IF chain[d].parent = 0
  THEN [chain |-> [chain EXCEPT ![d].url = newURL(location, chain[d].url)],
        log |-> Append(log, <<d, location>>)]
  ELSE push(chain, chain[d].parent, location, Append(log, <<d, location>>))

\* RouteLocation.fullUrl that reads the URL of the parent.
fullUrl_parent(chain, d) == chain[chain[d].parent].url

\* RouteLocation.fullUrl: the parent's fullUrl when the parent is a
\* RouteLocation, else the parent's url.
RECURSIVE fullUrl(_, _)
fullUrl(chain, d) ==
  IF chain[chain[d].parent].parent # 0
  THEN fullUrl(chain, chain[d].parent)
  ELSE chain[chain[d].parent].url

\* The routes at depths d.. rendered in the location chain[d], given the
\* match states `old` they had (NotMounted for a route that is mounted by
\* this render).
RECURSIVE RenderRoutes(_, _, _, _, _)
RenderRoutes(paths, d, chain, old, match) ==
  IF d > Len(paths) THEN [chain |-> chain, match |-> match]
  ELSE
    LET u == chain[d].url
        under(state) ==
          IF state.kind = "match"
          THEN RenderRoutes(paths, d + 1,
                            Append(chain,
                                   RouteLocation(RouteNewUrl(u, state), d)),
                            old, Append(match, state))
          ELSE [chain |-> chain,
                match |-> Append(match, state)
                            \o [i \in 1..(Len(paths) - d) |-> NotMounted]]
    IN  under(IF d = 1 \/ old[d] = NotMounted
              THEN RouterMatch(usePath(paths[d]), u.pathname)
              ELSE old[d])

LocInit ==
  /\ url \in LocUrls
  /\ \E paths \in [Depths -> LocPaths] :
       locs = [paths |-> paths,
               chain |-> <<SimpleLocation(url)>>,
               match |-> [d \in Depths |-> NotMounted],
               log |-> <<>>,
               op |-> "init",
               before |-> <<>>]
  /\ nest = NoNest
  /\ calls = NoCalls
  /\ arb = <<>>
  /\ rloc = <<>>
  /\ RouterIdle
  /\ MatchIdle
  /\ SwitchIdle

\* The tree is rendered for the first time.
LocMount ==
  /\ locs.op = "init"
  /\ LET r == RenderRoutes(locs.paths, 1, locs.chain, locs.match, <<>>)
     IN  locs' = [locs EXCEPT !.chain = r.chain, !.match = r.match,
                              !.op = "mount", !.before = locs.chain]
  /\ UNCHANGED <<url, nest, calls, arb, rloc, routerVars,
               matchVars, switchVars>>

\* push(location) is called on the location at depth d (a <Link /> rendered
\* by the route at depth d - 1); the SimpleLocation then emits the change,
\* Router.update sets the match of the route at depth 1 and the tree
\* renders again.
LocPush(d, location) ==
  /\ locs.op # "init"
  /\ d \in 1..Len(locs.chain)
  /\ LET pushed == push(locs.chain, d, location, <<>>)
         root == pushed.chain[1]
         r == RenderRoutes(locs.paths, 1, <<root>>, locs.match, <<>>)
     IN  /\ url' = root.url
         /\ locs' = [locs EXCEPT !.chain = r.chain, !.match = r.match,
                                 !.log = pushed.log, !.op = "push",
                                 !.before = pushed.chain]
  /\ UNCHANGED <<nest, calls, arb, rloc, routerVars,
               matchVars, switchVars>>

LocNext ==
  \/ LocMount
  \/ \E d \in 1..(NDepth + 1), location \in PushArguments : LocPush(d, location)

SpecLocation == LocInit /\ [][LocNext]_vars

(***************************************************************************)
(* One compiled matcher called again and again.  The RegExp that           *)
(* path-to-regexp makes is an object with a lastIndex, which exec reads    *)
(* and writes only when the regexp has the g (or y) flag.                  *)
(*   calls.fn         "Router.match" or "match": which matcher it is       *)
(*   calls.path       the path it was compiled from                        *)
(*   calls.lastIndex  re.lastIndex                                         *)
(*   calls.log        the calls made: <<pathname, result>>, in order       *)
(***************************************************************************)

\* Flags that make the regexp global.
flags_global(re) == {"i", "g"}

\* flags(options) of path-to-regexp: "i" unless the sensitive option is set.
flags(re) == {"i"}

\* re.exec(s) on a regexp whose lastIndex is `lastIndex`.
execFrom(re, s, lastIndex) ==
  IF "g" \notin flags(re)
  THEN [m |-> exec(re, s), lastIndex |-> lastIndex]
  ELSE
    LET m == IF lastIndex > Len(s) \/ (re.start /\ lastIndex > 0) THEN NoExec
             ELSE ExecAt(re, s, lastIndex + 1)
    IN  [m |-> m,
         lastIndex |-> IF m.found THEN m.index + Len(m.value) ELSE 0]

\* What Router.match, or the function of pathToRegexp.match, makes of the
\* exec result m.
matchResult(fn, m) ==
  IF ~m.found THEN False
  ELSE IF fn = "Router.match" THEN
    LET params == toParams(m.groups)
    IN  IF params = Undefined THEN False
        ELSE Match(m.value, m.index, params)
  ELSE
    LET params == decodeGroups(m.groups, 1, <<>>)
    IN  IF params = URIError THEN Throw
        ELSE Match(m.value, m.index, params)

MaxCalls == 3

RepeatPaths == {path_me, path_id, path_fooPrefix, path_barSuffix, path_fooInfix}

RepeatPathnames == {s_me, s_foo \o s_bar, s_foo \o s_foo, s_bad}

RepeatInit ==
  /\ url = URL(host, s_me, <<>>, <<>>)
  /\ \E fn \in {"Router.match", "match"}, path \in RepeatPaths :
       calls = [fn |-> fn, path |-> path, lastIndex |-> 0, log |-> <<>>]
  /\ nest = NoNest
  /\ locs = NoLocs
  /\ arb = <<>>
  /\ rloc = <<>>
  /\ RouterIdle
  /\ MatchIdle
  /\ SwitchIdle

\* The matcher is applied to the pathname p.
CallAgain(p) ==
  /\ Len(calls.log) < MaxCalls
  /\ LET re == IF calls.fn = "Router.match" THEN usePath(calls.path)
               ELSE toMatchOptions(calls.path)
         e == execFrom(re, p, calls.lastIndex)
     IN  calls' = [calls EXCEPT !.lastIndex = e.lastIndex,
                                !.log = Append(@, <<p, matchResult(calls.fn, e.m)>>)]
  /\ UNCHANGED <<url, nest, locs, arb, rloc, routerVars,
               matchVars, switchVars>>

RepeatNext == \E p \in RepeatPathnames : CallAgain(p)

SpecRepeat == RepeatInit /\ [][RepeatNext]_vars

(***************************************************************************)
(* The Router version: the Routers of two locations.  getRouter keeps one  *)
(* Router per SimpleLocation in a WeakMap.  The application renders the    *)
(* <Route /> components 1..NRoutes in the context of the location "app"    *)
(* and the first of them also in the context of the location "other"; a    *)
(* component that a route stops showing can, in its cleanup, make the      *)
(* application unmount another route of the same location.                 *)
(*   arb.urls     the url of each location                                 *)
(*   arb.made     the number of Routers constructed                        *)
(*   arb.routers  per location: the id of its Router in the WeakMap (0 if  *)
(*                it has none) and the Router's routes, matched and        *)
(*                subscription count                                       *)
(*   arb.comp     per location, per component: as comp of the single       *)
(*                Router above                                             *)
(*   arb.last     the last operation, the updateMatch calls it made, in     *)
(*                call order, and for an unmount the location and the      *)
(*                component whose deregistration function was called       *)
(***************************************************************************)
Locations == {"app", "other"}

\* The URLs the locations are pushed to: "/me" and "/foo/bar?q".
ArbUrls ==
  { URL(host, s_me, <<>>, <<>>),
    URL(host, s_foo \o s_bar, s_query, <<>>) }

NoRouter == [id |-> 0, routes |-> <<>>, matched |-> NoRoute, listeners |-> 0]

\* getRouter that constructs a Router on every call.
getRouter_fresh(a, key) ==
  [a EXCEPT !.made = a.made + 1,
            !.routers[key] = [NoRouter EXCEPT !.id = a.made + 1]]

\* getRouter(key): if (!routers.has(key)) routers.set(key, new Router(key)).
getRouter(a, key) ==
  IF a.routers[key].id # 0 THEN a
  ELSE [a EXCEPT !.made = a.made + 1,
                 !.routers[key] = [NoRouter EXCEPT !.id = a.made + 1]]

\* The Router of location `key` with the components of that location, as
\* Router.update and the deregistration function work on them.
RouterOf(a, key) ==
  [routes |-> a.routers[key].routes, matched |-> a.routers[key].matched,
   listeners |-> a.routers[key].listeners, comp |-> a.comp[key],
   pass |-> <<>>]

\* The state once the operation op has left the Router of `key` as st;
\* c is the component whose deregistration function op called, or 0.
Settled(a, key, st, op, c) ==
  [a EXCEPT !.routers[key].routes = st.routes,
            !.routers[key].matched = st.matched,
            !.routers[key].listeners = st.listeners,
            !.comp[key] = st.comp,
            !.last = [op |-> op,
                      key |-> IF c = 0 THEN "none" ELSE key,
                      c |-> c, pass |-> st.pass]]

\* The function returned by Router.track(route) for the route of component
\* c: splice, update when the route is Router.matched (the state updates
\* are rendered after the commit), unsubscribe when no route remains.
\* indexOf is -1 when the route is not in the array.
untrack(st, u, c) ==
  LET rs == splice1(st.routes, indexOf(st.routes, c, 1))
      isTracked == indexOf(st.routes, c, 1) >= 0
      cs == IF isTracked THEN [st.comp EXCEPT ![c] = Unmounted] ELSE st.comp
      after(up) ==
        [st EXCEPT !.routes = rs,
                   !.matched = up.matched,
                   !.comp = up.comp,
                   !.pass = st.pass \o up.pass,
                   !.listeners = IF Len(rs) = 0 THEN 0 ELSE st.listeners]
  IN  after(IF isTracked /\ st.matched = [kind |-> "tracked", id |-> c]
            THEN update(u, rs, cs, FALSE)
            ELSE [matched |-> IF isTracked /\ st.matched.id = c
                              THEN [kind |-> "stale", id |-> c]
                              ELSE st.matched,
                  comp |-> cs, pass |-> <<>>])

\* Router.update when updateMatch renders at once (the change does not come
\* from a React event handler).  The for...of loop reads this.routes[i] and
\* this.routes.length anew at every step.  When component x stops matching,
\* what it showed is unmounted, and the application then unmounts the
\* route of component h.
RECURSIVE UpdateLive(_, _, _, _, _)
UpdateLive(st, u, i, x, h) ==
  IF i >= Len(st.routes) THEN st
  ELSE
    LET c == st.routes[i + 1]
        was == st.comp[c].match
        updateMatch(match) ==
          LET changed == ~(match = False /\ was = False)
              set == [st EXCEPT !.comp[c].match = match,
                                !.pass = Append(st.pass, <<c, match>>)]
              unmounts == /\ c = x
                          /\ was.kind = "match"
                          /\ match = False
                          /\ st.comp[h].mounted
              next(rendered) ==
                UpdateLive(IF unmounts THEN untrack(rendered, u, h)
                           ELSE rendered,
                           u, i + 1, x, h)
          IN  next(IF changed THEN Rerendered(set, u, c) ELSE set)
    IN  updateMatch(IF st.matched.kind # "none" THEN False
                    ELSE RouterMatch(RoutePath(c), u.pathname))

\* No Router has been made; the locations are at one of the urls.
ArbInit(urls) ==
  /\ url \in urls
  /\ arb = [urls |-> [k \in Locations |-> url],
            made |-> 0,
            routers |-> [k \in Locations |-> NoRouter],
            comp |-> [k \in Locations |-> [c \in RouteIds |-> Unmounted]],
            last |-> [op |-> "init", key |-> "none", c |-> 0,
                      pass |-> <<>>]]
  /\ rloc = <<>>
  /\ nest = NoNest
  /\ locs = NoLocs
  /\ calls = NoCalls
  /\ RouterIdle
  /\ MatchIdle
  /\ SwitchIdle

\* A <Route /> is mounted in the context of location `key`: getRouter,
\* Router.use, then the layout effect runs Router.track.
ArbMount(key, c) ==
  /\ key = "app" \/ c = 1
  /\ ~arb.comp[key][c].mounted
  /\ LET a == getRouter(arb, key)
         st == RouterOf(a, key)
         tracked(initialValue) ==
           [st EXCEPT
              !.comp[c] = [mounted |-> TRUE, match |-> initialValue,
                           view |-> RouteRender(a.urls[key], initialValue)],
              !.matched = IF initialValue.kind = "match"
                          THEN [kind |-> "tracked", id |-> c]
                          ELSE st.matched,
              !.routes = Append(st.routes, c),
              !.listeners = IF Len(st.routes) = 0 THEN st.listeners + 1
                            ELSE st.listeners]
     IN  arb' = Settled(a, key,
                        tracked(IF st.matched.kind # "none" THEN False
                                ELSE RouterMatch(RoutePath(c),
                                                 a.urls[key].pathname)),
                        "mount", 0)
  /\ UNCHANGED <<url, rloc, nest, locs, calls, routerVars, matchVars,
                 switchVars>>

\* A mounted <Route /> renders again: getRouter and Router.use; the layout
\* effect does not run again.
ArbRender(key, c) ==
  /\ arb.comp[key][c].mounted
  /\ LET a == getRouter(arb, key)
     IN  arb' = Settled(a, key,
                        Rerendered(RouterOf(a, key), a.urls[key], c),
                        "render", 0)
  /\ UNCHANGED <<url, rloc, nest, locs, calls, routerVars, matchVars,
                 switchVars>>

\* A <Route /> is unmounted: React calls the function that Router.track
\* returned.
ArbUnmount(key, c) ==
  /\ arb.comp[key][c].mounted
  /\ arb' = Settled(arb, key, untrack(RouterOf(arb, key), arb.urls[key], c),
                    "unmount", c)
  /\ UNCHANGED <<url, rloc, nest, locs, calls, routerVars, matchVars,
                 switchVars>>

\* The deregistration function that has just been called is called again.
ArbUntrackAgain ==
  /\ arb.last.op = "unmount"
  /\ arb' = Settled(arb, arb.last.key,
                    untrack(RouterOf(arb, arb.last.key),
                            arb.urls[arb.last.key], arb.last.c),
                    "again", arb.last.c)
  /\ UNCHANGED <<url, rloc, nest, locs, calls, routerVars, matchVars,
                 switchVars>>

\* location.push on location `key` outside a React event handler; its
\* Router, when it is subscribed, runs Router.update.  x = 0: no component
\* makes the application unmount a route.
ArbPush(key, u, x, h) ==
  /\ LET a == [arb EXCEPT !.urls[key] = u]
         st == RouterOf(a, key)
     IN  arb' = IF st.listeners = 0 THEN Settled(a, key, st, "push", 0)
                ELSE Settled(a, key,
                             UpdateLive([st EXCEPT !.matched = NoRoute],
                                        u, 0, x, h),
                             "push+update", 0)
  /\ UNCHANGED <<url, rloc, nest, locs, calls, routerVars, matchVars,
                 switchVars>>

ArbNext ==
  \/ \E key \in Locations, c \in RouteIds : ArbMount(key, c)
  \/ \E key \in Locations, c \in RouteIds : ArbRender(key, c)
  \/ \E key \in Locations, c \in RouteIds : ArbUnmount(key, c)
  \/ \E key \in Locations, u \in ArbUrls : ArbPush(key, u, 0, 0)

SpecRouters == ArbInit(ArbUrls) /\ [][ArbNext]_vars

\* One location, whose application unmounts the route of component h when
\* what component x showed is unmounted, and whose deregistration functions
\* can be called again.
ArbLiveNext ==
  \/ \E c \in RouteIds : ArbMount("app", c)
  \/ \E c \in RouteIds : ArbUnmount("app", c)
  \/ ArbUntrackAgain
  \/ \E u \in ArbUrls, x, h \in RouteIds : x # h /\ ArbPush("app", u, x, h)

SpecLive == ArbInit(ArbUrls) /\ [][ArbLiveNext]_vars

(***************************************************************************)
(* An earlier version: the useRouter hook.  Router.matched is the RegExp   *)
(* of the route whose reducer last matched, Router.routes holds the        *)
(* dispatch functions, and the layout effect that tracks a route has no    *)
(* dependency list, so React runs its cleanup and the effect again after   *)
(* every render.  The routes are those of location "app"; the renders and  *)
(* unmounts taken are those of routes other than Router.matched.           *)
(***************************************************************************)
\* A <Route /> is mounted: the reducer's first state is
\* router.match(re, location.url), then the layout effect runs
\* router.track(re, update).
UseRouterMount(c) ==
  /\ ~arb.comp["app"][c].mounted
  /\ LET a == getRouter(arb, "app")
         st == RouterOf(a, "app")
         tracked(result) ==
           [st EXCEPT
              !.comp[c] = [mounted |-> TRUE, match |-> result,
                           view |-> RouteRender(a.urls["app"], result)],
              !.matched = IF result.kind = "match"
                          THEN [kind |-> "tracked", id |-> c]
                          ELSE st.matched,
              !.routes = Append(st.routes, c),
              !.listeners = IF Len(st.routes) = 0 THEN st.listeners + 1
                            ELSE st.listeners]
     IN  arb' = Settled(a, "app",
                        tracked(IF st.matched.kind # "none" THEN False
                                ELSE RouterMatch(RoutePath(c),
                                                 a.urls["app"].pathname)),
                        "mount", 0)
  /\ UNCHANGED <<url, rloc, nest, locs, calls, routerVars, matchVars,
                 switchVars>>

\* A mounted <Route /> whose RegExp is not Router.matched renders again with
\* the same path and options: React calls the function the last
\* router.track returned (splice, unsubscribe when no route remains) and
\* then the effect, which tracks the route again.
UseRouterRender(c) ==
  /\ arb.comp["app"][c].mounted
  /\ arb.routers["app"].matched # [kind |-> "tracked", id |-> c]
  /\ LET st == RouterOf(arb, "app")
         track(rs) ==
           [st EXCEPT !.routes = Append(rs, c),
                      !.listeners = IF Len(rs) = 0 THEN 1 ELSE st.listeners]
     IN  arb' = Settled(arb, "app",
                        track(splice1(st.routes, indexOf(st.routes, c, 1))),
                        "render", c)
  /\ UNCHANGED <<url, rloc, nest, locs, calls, routerVars, matchVars,
                 switchVars>>

\* A <Route /> whose RegExp is not Router.matched is unmounted: React calls
\* the function the last router.track returned.
UseRouterUnmount(c) ==
  /\ arb.comp["app"][c].mounted
  /\ arb.routers["app"].matched # [kind |-> "tracked", id |-> c]
  /\ LET st == RouterOf(arb, "app")
         untracked(rs) ==
           [st EXCEPT !.routes = rs,
                      !.comp[c] = Unmounted,
                      !.listeners = IF Len(rs) = 0 THEN 0 ELSE st.listeners]
     IN  arb' = Settled(arb, "app",
                        untracked(splice1(st.routes,
                                          indexOf(st.routes, c, 1))),
                        "unmount", c)
  /\ UNCHANGED <<url, rloc, nest, locs, calls, routerVars, matchVars,
                 switchVars>>

UseRouterNext ==
  \/ \E c \in RouteIds : UseRouterMount(c)
  \/ \E c \in RouteIds : UseRouterRender(c)
  \/ \E c \in RouteIds : UseRouterUnmount(c)

SpecUseRouter == ArbInit(Urls) /\ [][UseRouterNext]_vars

(***************************************************************************)
(* An earlier version: a <Route /> that keeps its RouteLocation.  useRoute *)
(* memoises new RouteLocation(parent.url, parent, options) on [location,   *)
(* options], where location is the global of that name and not the         *)
(* parameter, so one RouteLocation object lasts as long as the component;   *)
(* every render that matches assigns route.url.  One <Route path> alone on *)
(* its location.                                                           *)
(*   rloc.path    the path of the route                                    *)
(*   rloc.parent  location.url                                             *)
(*   rloc.route   the memoised RouteLocation: the number of the object (0  *)
(*                before the first render) and the url it holds            *)
(*   rloc.given   the RouteLocation object the children were last given    *)
(*                and the url it held at that time                         *)
(*   rloc.before  rloc.given as it was before the last render              *)
(***************************************************************************)
RouteLocationInit ==
  /\ input \in [path : MatchPaths, url : MatchUrls]
  /\ url = input.url
  /\ LET none == [id |-> 0, url |-> Undefined]
     IN  rloc = [path |-> input.path, parent |-> input.url,
                 route |-> none, given |-> none, before |-> none]
  /\ output = NoOutput
  /\ nest = NoNest
  /\ locs = NoLocs
  /\ calls = NoCalls
  /\ arb = <<>>
  /\ RouterIdle
  /\ SwitchIdle

\* The location is at u and the <Route /> renders: useRoute, the result of
\* router.match(re, location.url), and on a match
\* route.url = nestedUrl(location.url, index, value) before the children
\* are given route.
RouteLocationRender(u) ==
  LET useRoute == IF rloc.route.id = 0 THEN [id |-> 1, url |-> u]
                  ELSE rloc.route
      given(result, loc) ==
        [rloc EXCEPT !.parent = u,
                     !.route = loc,
                     !.given = IF result = False THEN rloc.given ELSE loc,
                     !.before = rloc.given]
      rendered(result) ==
        given(result,
              IF result = False THEN useRoute
              ELSE [useRoute EXCEPT
                      !.url = nestedUrl(u, result.index, result.value)])
  IN  /\ rloc' = rendered(RouterMatch(usePath(rloc.path), u.pathname))
      /\ UNCHANGED <<url, input, output, nest, locs, calls, arb, routerVars,
                     switchVars>>

RouteLocationNext == \E u \in MatchUrls : RouteLocationRender(u)

SpecRouteLocation == RouteLocationInit /\ [][RouteLocationNext]_vars

(***************************************************************************)
(* Properties of the Routers of two locations.                             *)
(***************************************************************************)
\* The components whose updateMatch a pass called, in call order.
Notified(pass) == [i \in 1..Len(pass) |-> pass[i][1]]

\* C21: a change of the location runs Router.update once, and that update
\* calls updateMatch exactly once for every route that is tracked, in the
\* order of Router.routes, with false or with the route's own match against
\* the new pathname.
C21_UpdateNotifiesEachOnce ==
  [][arb'.last.op = "push+update"
     => LET rs == arb'.routers["app"].routes
            tracked(c) == indexOf(rs, c, 1) >= 0
        IN  /\ SelectSeq(Notified(arb'.last.pass), tracked) = rs
            /\ \A i \in 1..Len(arb'.last.pass) :
                 arb'.last.pass[i][2] \in
                   {False, RouterMatch(RoutePath(arb'.last.pass[i][1]),
                                       arb'.urls["app"].pathname)}
    ]_vars

\* C24: getRouter returns for a location the Router it returned before and
\* for two locations two Routers, and no step changes the routes or the
\* matched route of the Routers of both locations.
C24_OneRouterPerLocation ==
  [][/\ \A k \in Locations :
          arb.routers[k].id # 0 => arb'.routers[k].id = arb.routers[k].id
     /\ \A k1, k2 \in Locations :
          k1 # k2 /\ arb'.routers[k1].id # 0
            => arb'.routers[k1].id # arb'.routers[k2].id
     /\ \A k1, k2 \in Locations :
          /\ k1 # k2
          /\ \/ arb'.routers[k1].routes # arb.routers[k1].routes
             \/ arb'.routers[k1].matched # arb.routers[k1].matched
          => /\ arb'.routers[k2].routes = arb.routers[k2].routes
             /\ arb'.routers[k2].matched = arb.routers[k2].matched
    ]_vars

\* Both locations have a Router that tracks routes, and a push has just
\* been delivered to one of them and has notified its routes.
C24_Witness ==
  /\ arb.last.op = "push+update"
  /\ Len(arb.last.pass) > 0
  /\ \A k \in Locations :
       arb.routers[k].id # 0 /\ Len(arb.routers[k].routes) > 0
  /\ arb.routers["app"].id # arb.routers["other"].id
  /\ arb.routers["app"].matched # arb.routers["other"].matched

\* C27: a call of the function returned by Router.track removes the route
\* it was returned for, and nothing else, from Router.routes; a further call
\* of the same function removes nothing.
C27_UntrackRemovesOwnRoute ==
  [][arb'.last.op \in {"unmount", "again"}
     => LET k == arb'.last.key
            others(c) == c # arb'.last.c
        IN  arb'.routers[k].routes = SelectSeq(arb.routers[k].routes, others)
    ]_vars

\* C28: when a route was untracked by an updateMatch call during
\* Router.update, every route that is still tracked at the end of the update
\* has had its updateMatch called, with false or with its own match against
\* the new pathname, and at most one of them has a match.
C28_NoRouteSkipped ==
  [][/\ arb'.last.op = "push+update"
     /\ Len(arb'.routers["app"].routes) < Len(arb.routers["app"].routes)
     => LET rs == arb'.routers["app"].routes
            cs == arb'.comp["app"]
        IN  /\ \A i \in 1..Len(rs) :
                 \E j \in 1..Len(arb'.last.pass) :
                   /\ arb'.last.pass[j][1] = rs[i]
                   /\ arb'.last.pass[j][2] \in
                        {False, RouterMatch(RoutePath(rs[i]),
                                            arb'.urls["app"].pathname)}
            /\ \A c, d \in RouteIds :
                 /\ cs[c].mounted /\ cs[c].match.kind = "match"
                 /\ cs[d].mounted /\ cs[d].match.kind = "match"
                 => c = d
    ]_vars

(***************************************************************************)
(* Properties of the earlier versions                                      *)
(***************************************************************************)
\* C29: a render of a tracked route whose path and options are unchanged
\* leaves Router.routes as it was.
C29_RenderKeepsRoutes ==
  [][arb'.last.op = "render"
     => arb'.routers["app"].routes = arb.routers["app"].routes]_vars

\* C25: a RouteLocation that the children have been given holds the url it
\* held when they were given it: a later render makes a new url for a new
\* RouteLocation and does not assign to the one given before.
C25_GivenLocationKeepsUrl ==
  rloc # <<>> /\ rloc.before.id # 0 /\ rloc.before.id = rloc.route.id
    => rloc.route.url = rloc.before.url

(***************************************************************************)
(* Properties of the Router version                                        *)
(***************************************************************************)

\* Does the compiled path of component c match the pathname of u?
Recognises(c, u) == RouterMatch(RoutePath(c), u.pathname).kind = "match"

\* The positions in the last Router.update whose updateMatch got a match.
NotifiedMatch == {k \in 1..Len(last.pass) : last.pass[k][2].kind = "match"}

\* C1: after every completed Router.update at most one registered entry has
\* been notified with a match; every other entry has been notified false.
C1_AtMostOneNotifiedMatch == Cardinality(NotifiedMatch) <= 1

\* C2: when two registered entries both recognise the current pathname, a
\* Router.update notifies the one registered earlier with a match and the
\* later one with false.
C2_EarlierRegisteredWins ==
  \A i, j \in 1..Len(last.pass) :
    (/\ i < j
     /\ Recognises(last.pass[i][1], url)
     /\ Recognises(last.pass[j][1], url))
    => (last.pass[i][2].kind = "match" /\ last.pass[j][2] = False)

\* The registered entries that recognise the current pathname, as
\* positions in registration order.
Candidates == {k \in 1..Len(routes) : Recognises(routes[k], url)}

FirstCandidate == CHOOSE k \in Candidates : \A j \in Candidates : k <= j

\* C4: once the winner has been deregistered, the earliest-registered
\* remaining entry that matches the URL is the winner (and the only entry in
\* matched state), and there is no winner only if no remaining entry matches.
C4_DeregisteredWinnerIsReplaced ==
  (last.op \in {"unmount", "unmount+update"} /\ last.winner)
  => IF Candidates = {} THEN matched.kind = "none"
     ELSE /\ matched.kind \in {"tracked", "later"}
          /\ matched.id = routes[FirstCandidate]
          /\ \A k \in 1..Len(routes) :
               (comp[routes[k]].match.kind = "match") <=> (k = FirstCandidate)

\* C10: the URL a matched <Route /> gives to its children has the host, the
\* search and the hash of the location's URL, also after later pushes.
C10_ResidualKeepsHostSearchHash ==
  \A c \in RouteIds :
    comp[c].view.kind = "children"
    => /\ comp[c].view.url.host = url.host
       /\ comp[c].view.url.search = url.search
       /\ comp[c].view.url.hash = url.hash

\* C20: a route that is mounted while Router.matched is set starts with
\* the match false and leaves Router.matched and the other routes as they
\* are; mounted while no route is matched, it starts with the result of its
\* own match and, when that is a match, becomes Router.matched.
C20_RegisterRespectsWinner ==
  [][last'.op = "mount"
     => LET c == last'.id
            own == RouterMatch(RoutePath(c), url.pathname)
        IN  /\ \A o \in RouteIds \ {c} : comp'[o] = comp[o]
            /\ IF matched.kind # "none"
               THEN comp'[c].match = False /\ matched' = matched
               ELSE /\ comp'[c].match = own
                    /\ matched' = IF own.kind = "match"
                                  THEN [kind |-> "tracked", id |-> c]
                                  ELSE NoRoute
    ]_vars

\* "/:id" has just been mounted on "/me" after "/me": it recognises the
\* pathname and starts false.
C20_Witness ==
  /\ last.op = "mount"
  /\ Recognises(last.id, url)
  /\ comp[last.id].match = False
  /\ matched.kind = "tracked"
  /\ matched.id # last.id
  /\ comp[matched.id].match.kind = "match"

\* C22: the Router holds one subscription to location.onChange while
\* Router.routes is not empty and none while it is empty, however often
\* the list is emptied and filled again.
C22_SubscribedIffTracking ==
  listeners = IF routes = <<>> THEN 0 ELSE 1

\* A route has just been tracked as the only one, after another route had
\* been tracked and removed before it.
C22_Witness ==
  /\ last.op = "mount"
  /\ Len(routes) = 1
  /\ matched.kind = "stale"
  /\ listeners = 1

\* C23: Router.matched is undefined or is an entry of Router.routes; it is
\* never the array of a route that has been removed.
C23_WinnerIsRegistered ==
  \/ matched.kind = "none"
  \/ /\ matched.kind # "stale"
     /\ \E k \in 1..Len(routes) : routes[k] = matched.id

\* C26: when a tracked route recognises the pathname, exactly one tracked
\* route is in matched state and it is the earliest tracked one that
\* recognises the pathname.
C26_SettlesOnEarliestMatch ==
  Candidates # {}
  => \A k \in 1..Len(routes) :
       (comp[routes[k]].match.kind = "match") <=> (k = FirstCandidate)

(***************************************************************************)
(* Properties of the matching functions                                    *)
(***************************************************************************)

\* Percent-encoding validity, stated on the text: every "%" belongs to an
\* escape sequence.
Escapes == {esc_A, esc_slash, esc_percent, esc_eacute}

ValidlyEncoded(s) ==
  \A i \in 1..Len(s) :
    s[i] = "%" =>
      \E e \in Escapes, j \in 1..i : HasAt(s, j, e) /\ i < j + Len(e)

Captured(groups) == {i \in 1..Len(groups) : groups[i] # Undefined}

\* C5: when the regexp matches and a captured parameter is not validly
\* percent-encoded, Router.match returns false; a match it returns has every
\* captured parameter decoded.
C5_DecodeAllOrNothing ==
  (output.fn = "Router.match" /\ output.m.found)
  => LET groups == output.m.groups
     IN  IF \E i \in Captured(groups) : ~ValidlyEncoded(groups[i])
         THEN output.result = False
         ELSE /\ output.result.kind = "match"
              /\ Len(output.result.params) = Len(groups)
              /\ \A i \in Captured(groups) :
                   output.result.params[i] = decodeURIComponent(groups[i])

\* A match with one parameter that decodes and one that does not.
C5_Witness ==
  /\ output.fn = "Router.match"
  /\ output.m.found
  /\ \E i, j \in Captured(output.m.groups) :
       /\ ValidlyEncoded(output.m.groups[i])
       /\ ~ValidlyEncoded(output.m.groups[j])
  /\ output.result = False

\* C7: for a match of non-zero length L at offset i that does not consume
\* the whole pathname p, nestedPathname is p without the characters
\* i..i+L-1, the others in their order.
C7_ResidualIsOutsideSpan ==
  (/\ output.fn = "nestedPathname"
   /\ Len(output.result.value) > 0
   /\ Len(output.result.value) < Len(url.pathname))
  => LET p == url.pathname
         i == output.result.index
         L == Len(output.result.value)
         r == output.nested
     IN  /\ Len(r) = Len(p) - L
         /\ \A j \in 1..Len(r) : r[j] = IF j <= i THEN p[j] ELSE p[j + L]

\* A match inside the pathname, with text before and after it.
C7_Witness ==
  /\ output.fn = "nestedPathname"
  /\ Len(output.result.value) > 0
  /\ output.result.index > 0
  /\ output.result.index + Len(output.result.value) < Len(url.pathname)

ConsumedAll(value) == Len(value) = Len(url.pathname)

\* C8: the residual pathname is never empty, and it is "/" when the match
\* consumed the whole pathname.
C8_ResidualNeverEmpty ==
  /\ output.fn = "nestedPathname"
     => /\ output.nested # <<>>
        /\ ConsumedAll(output.result.value) => output.nested = <<"/">>
  /\ output.fn = "nestedUrl"
     => /\ output.nested.pathname # <<>>
        /\ ConsumedAll(output.result.value) => output.nested.pathname = <<"/">>
  /\ output.fn = "route"
     => /\ output.nested.pathname # <<>>
        /\ ConsumedAll(output.m.value) => output.nested.pathname = <<"/">>

\* A match of the whole pathname, longer than "/".
C8_Witness ==
  /\ output.fn = "nestedPathname"
  /\ Len(url.pathname) > 1
  /\ ConsumedAll(output.result.value)
  /\ output.nested = <<"/">>

\* C9: a match of zero length leaves the URL as it is.
C9_ZeroLengthPassThrough ==
  /\ (output.fn = "nestedPathname" /\ Len(output.result.value) = 0)
     => output.nested = url.pathname
  /\ (output.fn = "nestedUrl" /\ Len(output.result.value) = 0)
     => output.nested = url

\* The empty path with end: false on a pathname longer than "/".
C9_Witness ==
  /\ output.fn = "nestedPathname"
  /\ Len(output.result.value) = 0
  /\ Len(url.pathname) > 1
  /\ url.search # <<>>

\* C30: the params of a successful match have one element per group of the
\* RegExp, in group order, whatever the length of the matched text.
C30_OneParamPerGroup ==
  output.fn = "Route.params" /\ output.m.found /\ output.result # False
    => /\ Len(output.result) = Len(output.m.groups)
       /\ \A i \in 1..Len(output.m.groups) :
            output.result[i] = decodeURIComponent(output.m.groups[i])

(***************************************************************************)
(* Properties of the <Switch /> version                                    *)
(***************************************************************************)

Accepts(path, p) == pathMatch(toMatchOptions(path), p).kind = "match"

\* The first child that accepts p, 0 when none does.
FirstAccepting(cs, p) ==
  IF \E k \in 1..Len(cs) : Accepts(cs[k], p)
  THEN CHOOSE k \in 1..Len(cs) :
         /\ Accepts(cs[k], p)
         /\ \A j \in 1..(k - 1) : ~Accepts(cs[j], p)
  ELSE 0

RendersFirst(cs, p, out) ==
  IF FirstAccepting(cs, p) = 0 THEN out.kind = "fallback"
  ELSE out.kind = "route" /\ out.child = FirstAccepting(cs, p)

\* C3: a rendered Switch shows the first child whose matcher accepts the
\* pathname it is given, and the fallback when no child accepts it.
C3_SwitchRendersFirstMatch ==
  /\ shown.outer.kind # "none"
     => RendersFirst(children.outer, pathname, shown.outer)
  /\ shown.outer.kind = "route"
     => RendersFirst(children.nested, shown.outer.route.pathname, shown.nested)

\* C6: no exception escapes the evaluation of a Switch.
C6_NoExceptionEscapes ==
  shown.outer.kind # "throw" /\ shown.nested.kind # "throw"

(***************************************************************************)
(* Properties of the nested routes of the final version                    *)
(***************************************************************************)

\* The routes at depths 1..d are all the prefix route "/foo" (end: false)
\* and all matched.
PrefixAncestors(d) ==
  \A k \in 1..d :
    /\ nest.paths[k] = path_fooPrefix
    /\ nest.out[k].kind = "route"
    /\ nest.out[k].child = 1

RECURSIVE Repeat(_, _)
Repeat(s, n) == IF n = 0 THEN <<>> ELSE s \o Repeat(s, n - 1)

\* C11: under d - 1 matched prefix routes "/foo", on the pathname
\* "/foo" ... "/foo" followed by r, the route at depth d is matched iff its
\* matcher accepts r ("/" when r is empty), and its result is the result of
\* that match.
C11_NestedSeesResidual ==
  \A d \in 2..NDepth :
    PrefixAncestors(d - 1)
    => LET consumed == Repeat(s_foo, d - 1)
           rest == sliceFrom(nest.state, Len(consumed))
           r == IF rest = <<>> \/ rest = <<"/">> THEN <<"/">> ELSE rest
       IN  /\ HasAt(nest.state, 1, consumed)
           /\ (nest.out[d].kind = "route") <=> Accepts(nest.paths[d], r)
           /\ nest.out[d].kind = "route"
              => nest.out[d].result = pathMatch(toMatchOptions(nest.paths[d]), r)

\* The route at depth 3 is matched on the residual "/me" of "/foo/foo/me",
\* which its matcher does not accept in full.
C11_Witness ==
  /\ PrefixAncestors(2)
  /\ nest.out[3].kind = "route"
  /\ ~Accepts(nest.paths[3], nest.state)
  /\ ~Accepts(nest.paths[3], nest.out[1].route.pathname)

C12_OptionalParamUndefined ==
  (/\ output.fn \in {"Router.match", "match"}
   /\ output.m.found
   /\ \A i \in Captured(output.m.groups) : ValidlyEncoded(output.m.groups[i]))
  => /\ output.result.kind = "match"
     /\ \A i \in 1..Len(output.m.groups) :
          output.m.groups[i] = Undefined
          => output.result.params[i] = Undefined

\* C13: with start and end both true, a match has offset 0 and its matched
\* text is the whole pathname; nothing less than the whole pathname matches.
C13_FullMatchOnly ==
  (/\ output.fn \in {"Router.match", "match"}
   /\ input.path.start
   /\ input.path.end)
  => /\ output.m.found
        => output.m.index = 0 /\ output.m.value = url.pathname
     /\ output.result.kind = "match"
        => output.result.index = 0 /\ output.result.value = url.pathname

\* "/foo/:id?" (start, end) matches the whole of "/foo/", trailing delimiter
\* included.
C13_Witness ==
  /\ output.fn = "match"
  /\ input.path.start
  /\ input.path.end
  /\ output.result.kind = "match"
  /\ Len(url.pathname) > Len(s_foo)
  /\ output.result.value = url.pathname

\* What each token contributes to a built path: a literal its text as
\* written, a parameter its prefix and its percent-encoded value.
RECURSIVE BuiltFrom(_, _, _, _)
BuiltFrom(tokens, k, data, j) ==
  IF k > Len(tokens) THEN <<>>
  ELSE IF tokens[k].type = "lit"
  THEN tokens[k].text \o BuiltFrom(tokens, k + 1, data, j)
  ELSE (IF data[j] = Undefined THEN <<>>
        ELSE tokens[k].prefix \o encodeURIComponent(data[j]))
       \o BuiltFrom(tokens, k + 1, data, j + 1)

\* C14: a built path is the literal segments as written and each value
\* percent-encoded on its own; "/:id" with "me" builds "/me" and with "cé"
\* builds "/c%C3%A9".
C14_BuildEncodesEachValue ==
  (output.fn = "compile" /\ output.built # TypeError)
  => /\ output.built = BuiltFrom(input.path.tokens, 1, output.data, 1)
     /\ (input.path = path_id /\ output.data = <<Tail(s_me)>>)
        => output.built = s_me
     /\ (input.path = path_id /\ output.data = <<Tail(s_cafe)>>)
        => output.built = <<"/", "c">> \o esc_eacute
     /\ input.path = path_cafePrefix => output.built = s_cafe

\* "/:a/:b" built with a non-ASCII value and a value holding a "/".
C14_Witness ==
  /\ output.fn = "compile"
  /\ input.path = path_two
  /\ output.data = <<Tail(s_cafe), <<"m", "/", "e">>>>
  /\ output.built = <<"/", "c">> \o esc_eacute \o <<"/", "m">> \o esc_slash
                      \o <<"e">>

\* C15: the params of an accepted pathname, built into a path and matched
\* again by the same matcher, come back equal.
C15_RoundTrip ==
  output.fn = "roundTrip"
  => /\ output.again.kind = "match"
     /\ output.again.params = output.first.params

(***************************************************************************)
(* Properties of the RouteLocations                                        *)
(***************************************************************************)

\* C16: a push on the location at depth d calls push with the same argument
\* on every parent up to the SimpleLocation, whose URL becomes the argument
\* resolved against it; no RouteLocation that was in context changes.
C16_PushForwardedToOutermost ==
  [][locs'.op = "push"
     => LET log == locs'.log
            d == log[1][1]
            location == log[1][2]
        IN  /\ Len(log) = d
            /\ \A k \in 1..d : log[k] = <<d - k + 1, location>>
            /\ url' = newURL(location, locs.chain[1].url)
            /\ locs'.before[1].url = url'
            /\ Len(locs'.before) = Len(locs.chain)
            /\ \A k \in 2..Len(locs.chain) : locs'.before[k] = locs.chain[k]
    ]_vars

\* A push of a path on the RouteLocation two routes deep.
C16_Witness ==
  /\ locs.op = "push"
  /\ Len(locs.log) = 3
  /\ Len(locs.before) >= 3
  /\ locs.log[1][2] = s_foo \o s_me
  /\ locs.before[3].url.pathname # url.pathname

\* C17: fullUrl of every RouteLocation in context is the URL of the
\* SimpleLocation, and its own url is the residual URL of the route that
\* made it: under the prefix route "/foo", the pathname without "/foo".
C17_FullUrlIsOutermostUrl ==
  /\ locs.op # "init" => locs.chain[1].url = url
  /\ \A d \in 2..Len(locs.chain) :
       /\ fullUrl(locs.chain, d) = url
       /\ locs.chain[d].parent = d - 1
       /\ locs.match[d - 1].kind = "match"
       /\ locs.chain[d].url = RouteNewUrl(locs.chain[d - 1].url,
                                          locs.match[d - 1])
  /\ (Len(locs.chain) >= 2 /\ locs.paths[1] = path_fooPrefix)
     => /\ HasAt(url.pathname, 1, s_foo)
        /\ locs.chain[2].url =
             URL(host,
                 IF Len(url.pathname) = Len(s_foo) THEN <<"/">>
                 ELSE sliceFrom(url.pathname, Len(s_foo)),
                 url.search, url.hash)

\* Three locations deep on "/foo/foo/me": the innermost url has the pathname
\* "/me" and its fullUrl is the application's URL.
C17_Witness ==
  /\ Len(locs.chain) >= 3
  /\ locs.paths[1] = path_fooPrefix
  /\ locs.chain[3].url.pathname = s_me
  /\ locs.chain[2].url.pathname = s_foo \o s_me
  /\ url.pathname = s_foo \o s_foo \o s_me
  /\ fullUrl(locs.chain, 3) = url

(***************************************************************************)
(* Properties of a matcher called repeatedly                               *)
(***************************************************************************)

====
